---- MODULE Spec2Model ----
(***************************************************************************)
(* tarpc request Context (src/tarpc/src/context.rs): the deadline codecs   *)
(* (serde: absolute_to_relative_time, rkyv: RkyvSystemTime) and the        *)
(* ambient store reached through Context::current and                      *)
(* SpanExt::set_context.                                                   *)
(*                                                                         *)
(* Time is counted in whole seconds.  A SystemTime is an integer, the      *)
(* number of seconds since UNIX_EPOCH (negative before it); a Duration is  *)
(* a natural number.  An Option is a sequence of length at most one.       *)
(***************************************************************************)
EXTENDS Integers, Sequences, FiniteSets, TLC

\* clock:     each process's SystemTime::now()
\* held:      the Context each process holds, if any
\* rcvd:      per process, the record its Context was last decoded from
\* wire:      the encoded Context in flight, if any
\* hops:      how many records have been sent
\* spanCx:    per tracing span, whether it exists, its parent span and the
\*            parent context set_parent stored on it
\* installed: per span, the Context set_context last installed (history)
\* active:    per thread, tracing::Span::current() (0: none)
\* got:       what the call of Context::current() just made returned
VARIABLES clock, held, rcvd, wire, hops,
          spanCx, installed, active, got

wireVars == <<held, rcvd, wire, hops>>
ambientVars == <<spanCx, installed, active, got>>
vars == <<clock, held, rcvd, wire, hops, spanCx, installed, active, got>>

\* ---------------------------------------------------------------- bounds
MaxClock == 2
MaxDeadline == 2
PreEpoch == 1
MaxDur == 1
MaxHops == 2
NSpan == 2

\* ------------------------------------------------------- program constants
\* SystemTime::UNIX_EPOCH
UNIX_EPOCH == 0
\* Duration::ZERO
ZERO == 0
\* Duration::from_secs(10)
TenSeconds == 10

None == <<>>
Some(x) == <<x>>
Val(o) == o[1]

Proc == {"client", "server"}
Fmt == {"serde", "rkyv"}

\* trace::Context::default(): every field zero / unsampled
DefaultTrace == [trace_id |-> 0, span_id |-> 0, sampling_decision |-> 0]

\* The trace contexts a Context carries: the default one, or that of a
\* sampled root request (non-zero trace id and span id, all fields distinct).
TraceCtxs ==
    {DefaultTrace} \cup
    {[trace_id |-> 1, span_id |-> 2, sampling_decision |-> 1]}

Deadlines == (UNIX_EPOCH - PreEpoch)..MaxDeadline

\* pub struct Context { deadline, trace_context }
Context(d, tc) == [deadline |-> d, trace_context |-> tc]

Contexts == {Context(d, tc) : d \in Deadlines, tc \in TraceCtxs}

\* ----------------------------------------------------------------- codecs
\* SystemTime::duration_since(earlier).unwrap_or(Duration::ZERO), the abs-
\* difference variant a slip would produce by reading the error's duration.
serialize_abs(deadline, now) ==
    IF deadline >= now THEN deadline - now ELSE now - deadline

\* absolute_to_relative_time::serialize: deadline.duration_since(now) is Err
\* when the deadline is earlier than now, and unwrap_or gives Duration::ZERO.
serialize(deadline, now) ==
    IF deadline >= now THEN deadline - now ELSE ZERO

\* A decode that keeps the wire value as an absolute time.
deserialize_abs(r, now) == UNIX_EPOCH + r

\* absolute_to_relative_time::deserialize: SystemTime::now() + deadline
deserialize(r, now) == now + r

\* RkyvSystemTime::serialize_with: field.duration_since(UNIX_EPOCH)
\*                                      .unwrap_or(Duration::ZERO)
serialize_with(field) ==
    IF field >= UNIX_EPOCH THEN field - UNIX_EPOCH ELSE ZERO

\* RkyvSystemTime::deserialize_with: UNIX_EPOCH + field
deserialize_with(field) == UNIX_EPOCH + field

ten_seconds_from_now_zero(now) == now

\* fn ten_seconds_from_now(): SystemTime::now() + Duration::from_secs(10)
ten_seconds_from_now(now) == now + TenSeconds

\* The derived encoding of the trace_context field: the three fields in
\* declaration order.
EncodeTrace(tc) == <<tc.trace_id, tc.span_id, tc.sampling_decision>>

DecodeTrace(w) ==
    [trace_id |-> w[1], span_id |-> w[2], sampling_decision |-> w[3]]

\* derive(Serialize) / derive(rkyv::Serialize) on Context: the deadline goes
\* through the format's `with` module, the trace context through its own
\* derived encoding.
EncodeDeadline(f, deadline, now) ==
    IF f = "serde" THEN serialize(deadline, now) ELSE serialize_with(deadline)

\* derive(Deserialize) / derive(rkyv::Deserialize) on Context.  A serde
\* record without the deadline field takes serde(default =
\* "ten_seconds_from_now").
DecodeDeadline(f, field, now) ==
    IF f = "serde"
    THEN IF field = None THEN ten_seconds_from_now(now)
                         ELSE deserialize(Val(field), now)
    ELSE deserialize_with(Val(field))

\* ------------------------------------------------------------ wire actions
\* What a record on the wire remembers of its sender (history, not sent):
\* the deadline D encoded, the sender's clock reading T1, the trace context,
\* the relative duration the sender had itself received over serde, and
\* whether a modelled process encoded it.
NoSrc == [D |-> 0, T1 |-> 0, tc |-> DefaultTrace, rcvd |-> None, real |-> FALSE]

\* A process's clock advances (each clock is non-decreasing).
Tick(p) ==
    /\ clock[p] < MaxClock
    /\ clock' = [clock EXCEPT ![p] = @ + 1]
    /\ UNCHANGED <<wireVars, ambientVars>>

\* Process p encodes the Context it holds in format f and sends it.
Encode(p, f) ==
    /\ held[p] # None
    /\ wire = None
    /\ hops < MaxHops
    /\ LET c == Val(held[p]) IN
       wire' = Some([fmt |-> f,
                     deadline |-> Some(EncodeDeadline(f, c.deadline, clock[p])),
                     trace |-> EncodeTrace(c.trace_context),
                     src |-> [D |-> c.deadline, T1 |-> clock[p],
                              tc |-> c.trace_context,
                              rcvd |-> IF f = "serde" /\ rcvd[p] # None
                                          /\ Val(rcvd[p]).fmt = "serde"
                                       THEN Val(rcvd[p]).field ELSE None,
                              real |-> TRUE]])
    /\ hops' = hops + 1
    /\ UNCHANGED <<clock, held, rcvd, ambientVars>>

\* A peer outside the model starts a chain with a serde record: any relative
\* duration, or a record without the deadline field.
PeerSend(field, tc) ==
    /\ wire = None
    /\ hops = 0
    /\ wire' = Some([fmt |-> "serde", deadline |-> field,
                     trace |-> EncodeTrace(tc), src |-> [NoSrc EXCEPT !.tc = tc]])
    /\ hops' = hops + 1
    /\ UNCHANGED <<clock, held, rcvd, ambientVars>>

\* Process p decodes the record on the wire.
Decode(p) ==
    /\ wire # None
    /\ LET m == Val(wire)
           out == Context(DecodeDeadline(m.fmt, m.deadline, clock[p]),
                          DecodeTrace(m.trace))
       IN /\ held' = [held EXCEPT ![p] = Some(out)]
          /\ rcvd' = [rcvd EXCEPT ![p] =
                        Some([fmt |-> m.fmt, field |-> m.deadline,
                              T2 |-> clock[p], src |-> m.src])]
    /\ wire' = None
    /\ UNCHANGED <<clock, hops, ambientVars>>

\* ---------------------------------------------------------- ambient store
Span == 1..NSpan
Thread == {"A", "B"}

\* The process whose units of work are modelled; Context::current reads its
\* clock.
Home == "server"

\* opentelemetry::Context::new(): no Deadline value, no span.
EmptyCx == [deadline |-> None, remote |-> None]

NoSpan == [live |-> FALSE, parent |-> 0, cx |-> EmptyCx]

\* The Contexts a handler installs.
InstallCtxs ==
    {Context(MaxDeadline, tc) : tc \in TraceCtxs} \cup
    {Context(MaxDeadline + 1, tc) : tc \in TraceCtxs \ {DefaultTrace}}

\* The span id the tracing system gives span s (never an id of TraceCtxs).
OwnSpanId(s) == 2 + s

\* span.context() of the tracing collaborator: the Deadline value of the
\* span's parent context, and the span's own span context when its lineage
\* is an interpretable trace context (the lineage's trace id and sampling
\* decision, the span's own id).
context(store, s) ==
    LET cx == store[s].cx IN
    [deadline |-> cx.deadline,
     span |-> IF cx.remote = None \/ Val(cx.remote).trace_id = 0
              THEN None
              ELSE Some([trace_id |-> Val(cx.remote).trace_id,
                         span_id |-> OwnSpanId(s),
                         sampling_decision |-> Val(cx.remote).sampling_decision])]

\* tracing::Span::current().context() for a thread whose current span is s
\* (0: none): the span's context, or the empty context when no span is active.
current_span_context(store, s) ==
    IF s = 0 THEN [deadline |-> None, span |-> None]
    ELSE context(store, s)

\* trace::Context::try_from(&span): Err (None) when the span holds no
\* interpretable trace context.
try_from(cx) == cx.span

\* impl Default for Deadline: Self(ten_seconds_from_now())
Deadline_default(now) == ten_seconds_from_now(now)

\* A current() that ignores the ambient Deadline entry.
current_rederived(cx, now) ==
    Context(Deadline_default(now),
            IF try_from(cx) = None THEN DefaultTrace ELSE Val(try_from(cx)))

\* Context::current(): each field falls back on its own.
current(cx, now) ==
    Context(IF cx.deadline = None THEN Deadline_default(now) ELSE Val(cx.deadline),
            IF try_from(cx) = None THEN DefaultTrace ELSE Val(try_from(cx)))

\* A set_context that writes the parent context of every span.
set_context_all(store, s, c) ==
    [u \in DOMAIN store |->
        IF store[u].live
        THEN [store[u] EXCEPT !.cx = [deadline |-> Some(c.deadline),
                                      remote |-> Some(c.trace_context)]]
        ELSE store[u]]

\* SpanExt::set_context: span.set_parent(Context::new()
\*     .with_remote_span_context(trace id, span id, sampling decision)
\*     .with_value(Deadline(context.deadline))) replaces the parent context
\* of this span only.
set_context(store, s, c) ==
    [store EXCEPT ![s].cx = [deadline |-> Some(c.deadline),
                             remote |-> Some(c.trace_context)]]

\* A handler installs Context c on span s.
SetContext(s, c) ==
    /\ spanCx[s].live
    /\ spanCx' = set_context(spanCx, s, c)
    /\ installed' = [installed EXCEPT ![s] = Some(c)]
    /\ got' = None
    /\ UNCHANGED <<clock, wireVars, active>>

\* The tracing collaborator marks span s's lineage from a trace context that
\* came without a tarpc Context: the new parent context has no Deadline.
SetParent(s, tc) ==
    /\ spanCx[s].live
    /\ spanCx' = [spanCx EXCEPT ![s].cx = [deadline |-> None, remote |-> Some(tc)]]
    /\ installed' = [installed EXCEPT ![s] = None]
    /\ got' = None
    /\ UNCHANGED <<clock, wireVars, active>>

\* Thread t creates a span: a child of its current span, whose context it
\* inherits, or a root span when none is active.
NewSpan(t) ==
    /\ \E s \in Span : ~spanCx[s].live
    /\ LET s == CHOOSE u \in Span : ~spanCx[u].live /\ \A v \in Span : v < u => spanCx[v].live
           pcx == current_span_context(spanCx, active[t])
       IN spanCx' = [spanCx EXCEPT ![s] =
                        [live |-> TRUE, parent |-> active[t],
                         cx |-> [deadline |-> pcx.deadline, remote |-> pcx.span]]]
    /\ got' = None
    /\ UNCHANGED <<clock, wireVars, installed, active>>

\* Thread t starts running inside span s (it becomes the thread's current
\* span).
Enter(t, s) ==
    /\ spanCx[s].live
    /\ active[t] = 0
    /\ active' = [active EXCEPT ![t] = s]
    /\ got' = None
    /\ UNCHANGED <<clock, wireVars, spanCx, installed>>

\* Thread t leaves its current span.
Exit(t) ==
    /\ active[t] # 0
    /\ active' = [active EXCEPT ![t] = 0]
    /\ got' = None
    /\ UNCHANGED <<clock, wireVars, spanCx, installed>>

\* The Home clock advances while units of work run.
HomeTick ==
    /\ clock[Home] < MaxClock
    /\ clock' = [clock EXCEPT ![Home] = @ + 1]
    /\ got' = None
    /\ UNCHANGED <<wireVars, spanCx, installed, active>>

\* Thread t calls Context::current(); got holds what the call returned, with
\* what was installed on the thread's span when it ran.
Current(t) ==
    /\ LET cx == current_span_context(spanCx, active[t]) IN
       got' = Some([thread |-> t, span |-> active[t], at |-> clock[Home],
                    inst |-> IF active[t] = 0 THEN None ELSE installed[active[t]],
                    out |-> current(cx, clock[Home])])
    /\ UNCHANGED <<clock, wireVars, spanCx, installed, active>>

\* ---------------------------------------------------------- specifications
WireInit ==
    /\ clock \in [Proc -> 0..MaxClock]
    /\ \E c \in Contexts : held = [p \in Proc |-> IF p = "client" THEN Some(c) ELSE None]
    /\ rcvd = [p \in Proc |-> None]
    /\ wire = None
    /\ hops = 0

AmbientInit ==
    /\ spanCx = [s \in Span |-> NoSpan]
    /\ installed = [s \in Span |-> None]
    /\ active = [t \in Thread |-> 0]
    /\ got = None

Init == WireInit /\ AmbientInit

\* No Context is in flight while the units of work of Home run.
InitAmbient ==
    /\ clock = [p \in Proc |-> 0]
    /\ held = [p \in Proc |-> None]
    /\ rcvd = [p \in Proc |-> None]
    /\ wire = None
    /\ hops = 0
    /\ spanCx = [s \in Span |-> NoSpan]
    /\ installed = [s \in Span |-> None]
    /\ active = [t \in Thread |-> 0]
    /\ got = None

WireNext ==
    \/ \E p \in Proc : Tick(p)
    \/ \E p \in Proc, f \in Fmt : Encode(p, f)
    \/ \E r \in {None} \cup {Some(d) : d \in 0..MaxDur}, tc \in TraceCtxs : PeerSend(r, tc)
    \/ \E p \in Proc : Decode(p)

AmbientNext ==
    \/ HomeTick
    \/ \E s \in Span, c \in InstallCtxs : SetContext(s, c)
    \/ \E s \in Span, tc \in TraceCtxs \ {DefaultTrace} : SetParent(s, tc)
    \/ \E t \in Thread : NewSpan(t)
    \/ \E t \in Thread, s \in Span : Enter(t, s)
    \/ \E t \in Thread : Exit(t)
    \/ \E t \in Thread : Current(t)

Next == WireNext \/ AmbientNext

\* The whole program.
Spec == Init /\ [][Next]_vars

\* The codecs alone: Contexts travelling between the processes.
SpecWire == Init /\ [][WireNext]_vars

\* The ambient store alone, inside the Home process.
SpecAmbient == InitAmbient /\ [][AmbientNext]_vars

\* ------------------------------------------------------------- properties
Max0(x) == IF x > 0 THEN x ELSE 0
MaxOf(a, b) == IF a >= b THEN a ELSE b

\* Process p holds a Context it decoded from a record a modelled process
\* encoded in format f.
DecodedFrom(p, f) ==
    /\ rcvd[p] # None
    /\ Val(rcvd[p]).fmt = f
    /\ Val(rcvd[p]).src.real

\* C1 as stated: a Context with deadline D serde-encoded at sender time T1 and
\* decoded at receiver time T2 # T1 has deadline T2 + (D - T1), which is not D.
C1_Original ==
    \A p \in Proc :
        (DecodedFrom(p, "serde") /\ Val(rcvd[p]).T2 # Val(rcvd[p]).src.T1) =>
            LET L == Val(rcvd[p]) IN
            /\ Val(held[p]).deadline = L.T2 + (L.src.D - L.src.T1)
            /\ Val(held[p]).deadline # L.src.D

\* C1 amended: the decoded deadline is T2 + max(0, D - T1).  When D >= T1 that
\* is T2 + (D - T1), which differs from D; when D < T1 it is T2 itself.
C1_SkewIndependence ==
    \A p \in Proc :
        (DecodedFrom(p, "serde") /\ Val(rcvd[p]).T2 # Val(rcvd[p]).src.T1) =>
            LET L == Val(rcvd[p]) IN
            /\ Val(held[p]).deadline = L.T2 + Max0(L.src.D - L.src.T1)
            /\ L.src.D >= L.src.T1 =>
                  /\ Val(held[p]).deadline = L.T2 + (L.src.D - L.src.T1)
                  /\ Val(held[p]).deadline # L.src.D
            /\ L.src.D < L.src.T1 => Val(held[p]).deadline = L.T2

C1_Witness ==
    \E p \in Proc :
        /\ DecodedFrom(p, "serde")
        /\ Val(rcvd[p]).T2 > Val(rcvd[p]).src.T1
        /\ Val(rcvd[p]).src.D > Val(rcvd[p]).src.T1
        /\ Val(held[p]).deadline > Val(rcvd[p]).src.D

\* C2: the serde encoder writes deadline - now when the deadline is not
\* earlier than the sender's clock reading, and exactly zero when it is; the
\* duration written is never negative and is always present.
C2_Clamp ==
    (wire # None /\ Val(wire).fmt = "serde" /\ Val(wire).src.real) =>
        LET m == Val(wire) IN
        /\ m.deadline # None
        /\ Val(m.deadline) >= 0
        /\ m.src.D >= m.src.T1 => Val(m.deadline) = m.src.D - m.src.T1
        /\ m.src.D < m.src.T1 => Val(m.deadline) = ZERO

C2_Witness ==
    /\ wire # None
    /\ Val(wire).fmt = "serde"
    /\ Val(wire).src.real
    /\ Val(wire).src.D < Val(wire).src.T1
    /\ Val(wire).deadline = Some(0)

\* C3 as stated: in either format the record carries max(0, D - T1) and the
\* decoded deadline is the receiver's clock reading plus the duration read.
C3_SameRule ==
    /\ (wire # None /\ Val(wire).src.real) =>
          Val(wire).deadline = Some(Max0(Val(wire).src.D - Val(wire).src.T1))
    /\ \A p \in Proc, f \in Fmt :
          DecodedFrom(p, f) =>
              Val(held[p]).deadline = Val(rcvd[p]).T2 + Val(Val(rcvd[p]).field)

\* C4 as stated: encoded and decoded at the same clock reading, in either
\* format, a Context keeps its trace context and its deadline, whatever the
\* deadline.
C4_Original ==
    \A p \in Proc, f \in Fmt :
        (DecodedFrom(p, f) /\ Val(rcvd[p]).T2 = Val(rcvd[p]).src.T1) =>
            /\ Val(held[p]).trace_context = Val(rcvd[p]).src.tc
            /\ Val(held[p]).deadline = Val(rcvd[p]).src.D

\* C4 amended: encoded and decoded at the same clock reading T, a Context
\* keeps its trace context exactly; over serde its deadline D comes back as
\* max(D, T), over rkyv as max(D, UNIX_EPOCH): it is D unless D is earlier
\* than T (serde) or than UNIX_EPOCH (rkyv).
C4_RoundTrip ==
    \A p \in Proc, f \in Fmt :
        (DecodedFrom(p, f) /\ Val(rcvd[p]).T2 = Val(rcvd[p]).src.T1) =>
            LET L == Val(rcvd[p]) IN
            /\ Val(held[p]).trace_context = L.src.tc
            /\ f = "serde" => Val(held[p]).deadline = MaxOf(L.src.D, L.src.T1)
            /\ f = "rkyv" => Val(held[p]).deadline = MaxOf(L.src.D, UNIX_EPOCH)

C4_Witness ==
    \E p \in Proc :
        /\ DecodedFrom(p, "serde")
        /\ Val(rcvd[p]).T2 = Val(rcvd[p]).src.T1
        /\ Val(rcvd[p]).src.D < Val(rcvd[p]).src.T1
        /\ Val(rcvd[p]).src.tc # DefaultTrace
        /\ Val(held[p]).deadline = Val(rcvd[p]).T2

\* What Context::current() returns inside span s in the present state.
CurrentIn(s) == current(current_span_context(spanCx, s), clock[Home])

\* C5: a call of Context::current() inside a span returns the deadline and
\* trace id of the Context installed on that span, whatever was installed on
\* other spans and in whatever order; and a step that installs a Context on
\* one span changes what Context::current() returns inside no other span.
C5_Isolation ==
    [][ /\ \A s \in Span :
              installed'[s] # installed[s] =>
                  \A u \in Span \ {s} :
                      current(current_span_context(spanCx', u), clock'[Home])
                          = CurrentIn(u)
        /\ (got' # None /\ Val(got').inst # None) =>
              /\ Val(got').out.deadline = Val(Val(got').inst).deadline
              /\ Val(got').out.trace_context.trace_id
                    = Val(Val(got').inst).trace_context.trace_id
      ]_vars

C5_Witness ==
    /\ got # None
    /\ Val(got).inst # None
    /\ \E t \in Thread :
          /\ t # Val(got).thread
          /\ active[t] # 0
          /\ active[t] # Val(got).span
          /\ spanCx[active[t]].parent = Val(got).span
          /\ installed[active[t]] # None
          /\ Val(installed[active[t]]).deadline # Val(Val(got).inst).deadline
          /\ Val(installed[active[t]]).trace_context.trace_id
                # Val(Val(got).inst).trace_context.trace_id

\* C6: Context::current() always returns a Context, field by field: with no
\* active span the deadline is now + 10 s and the trace context the default
\* one; with a Deadline entry but no interpretable trace context, that
\* deadline and the default trace context; with a trace context but no
\* Deadline entry, that trace context and now + 10 s.
C6_FieldwiseDefaults ==
    got # None =>
        LET g == Val(got)
            cx == IF g.span = 0 THEN EmptyCx ELSE spanCx[g.span].cx
            traced == cx.remote # None /\ Val(cx.remote).trace_id # 0
        IN /\ g.span = 0 =>
                 g.out = Context(g.at + TenSeconds, DefaultTrace)
           /\ (g.span # 0 /\ cx.deadline # None /\ ~traced) =>
                 g.out = Context(Val(cx.deadline), DefaultTrace)
           /\ (g.span # 0 /\ cx.deadline = None /\ traced) =>
                 /\ g.out.deadline = g.at + TenSeconds
                 /\ g.out.trace_context.trace_id = Val(cx.remote).trace_id
                 /\ g.out.trace_context.sampling_decision
                       = Val(cx.remote).sampling_decision
           /\ (g.span # 0 /\ cx.deadline = None /\ ~traced) =>
                 g.out = Context(g.at + TenSeconds, DefaultTrace)

C6_Witness ==
    /\ got # None
    /\ Val(got).span # 0
    /\ Val(got).at > 0
    /\ spanCx[Val(got).span].cx.deadline = None
    /\ spanCx[Val(got).span].cx.remote # None
    /\ Val(got).out.trace_context # DefaultTrace
    /\ Val(got).out.deadline = Val(got).at + TenSeconds

\* C7: while Context C is the Context installed on a thread's current span,
\* Context::current() on that thread returns C's deadline, C's trace id and
\* C's sampling decision, at every later clock reading.
C7_InstallThenRecover ==
    \A t \in Thread :
        (active[t] # 0 /\ installed[active[t]] # None) =>
            LET C == Val(installed[active[t]])
                out == CurrentIn(active[t])
            IN /\ out.deadline = C.deadline
               /\ out.trace_context.trace_id = C.trace_context.trace_id
               /\ out.trace_context.sampling_decision
                     = C.trace_context.sampling_decision

C7_Witness ==
    /\ got # None
    /\ Val(got).inst # None
    /\ Val(got).at = MaxClock
    /\ Val(Val(got).inst).trace_context # DefaultTrace
    /\ Val(got).out.deadline = Val(Val(got).inst).deadline
    /\ Val(got).out.deadline # Val(got).at + TenSeconds

\* C8: a relative duration r read from a serde record at receiver clock
\* reading T decodes to the deadline T + r, never earlier than T, whoever
\* sent the record and whatever the sender's clock read.
C8_ReAnchor ==
    \A p \in Proc :
        (rcvd[p] # None /\ Val(rcvd[p]).fmt = "serde" /\ Val(rcvd[p]).field # None) =>
            /\ Val(held[p]).deadline = Val(rcvd[p]).T2 + Val(Val(rcvd[p]).field)
            /\ Val(held[p]).deadline >= Val(rcvd[p]).T2

C8_Witness ==
    \E p \in Proc :
        /\ rcvd[p] # None
        /\ Val(rcvd[p]).fmt = "serde"
        /\ ~Val(rcvd[p]).src.real
        /\ Val(rcvd[p]).field = Some(MaxDur)
        /\ Val(rcvd[p]).T2 = MaxClock
        /\ Val(held[p]).deadline = MaxClock + MaxDur

\* C9: a serde record without the deadline field decodes to a Context whose
\* deadline is the receiver's clock reading plus 10 s and whose trace context
\* is the record's.
C9_MissingDeadline ==
    \A p \in Proc :
        (rcvd[p] # None /\ Val(rcvd[p]).fmt = "serde" /\ Val(rcvd[p]).field = None) =>
            /\ held[p] # None
            /\ Val(held[p]).deadline = Val(rcvd[p]).T2 + TenSeconds
            /\ Val(held[p]).trace_context = Val(rcvd[p]).src.tc

C9_Witness ==
    \E p \in Proc :
        /\ rcvd[p] # None
        /\ Val(rcvd[p]).field = None
        /\ Val(rcvd[p]).T2 > 0
        /\ Val(rcvd[p]).src.tc # DefaultTrace
        /\ Val(held[p]).deadline = Val(rcvd[p]).T2 + TenSeconds

\* C10: a process that decoded a serde record and later encodes the deadline
\* it got writes a relative duration no greater than the one it read, and
\* writes zero if it read zero.
C10_BudgetNeverGrows ==
    (wire # None /\ Val(wire).fmt = "serde" /\ Val(wire).src.real
        /\ Val(wire).src.rcvd # None) =>
        /\ Val(Val(wire).deadline) <= Val(Val(wire).src.rcvd)
        /\ Val(Val(wire).src.rcvd) = 0 => Val(Val(wire).deadline) = 0

C10_Witness ==
    /\ wire # None
    /\ Val(wire).fmt = "serde"
    /\ Val(wire).src.real
    /\ Val(wire).src.rcvd # None
    /\ Val(Val(wire).src.rcvd) > 0
    /\ Val(Val(wire).deadline) < Val(Val(wire).src.rcvd)
====
